---- MODULE Spec2Model ----
(***************************************************************************)
(* The live coding session engine of backend/app/api/ws_coding.py and the  *)
(* Test Runner of backend/app/api/judge.py.                                *)
(*                                                                         *)
(* One asyncio task runs handle_coding_websocket per channel.  The event   *)
(* loop is single-threaded: `running` names the task that holds it.  A     *)
(* task gives the loop up only at an await that really suspends            *)
(* (websocket.accept / receive_text / send_json, asyncio.sleep); the judge *)
(* requests (requests.post / requests.get) and time.sleep are blocking     *)
(* calls made while the task keeps the loop.                               *)
(***************************************************************************)
EXTENDS Integers, Sequences, FiniteSets, TLC

(* ---------------------------- bounds ----------------------------------- *)
\* frames received over all channels in one behaviour
MaxMsgs == 2
\* the clock stops advancing here
MaxTime == 61
\* frames received over all channels in one behaviour of SpecTabs
MaxTabMsgs == 7
\* frames received over all channels in one behaviour of SpecTwice
MaxEditMsgs == 3

(* ----------------------- program constants ----------------------------- *)
SnapshotCap == 20          \* ws_coding.py:119
CharDelta == 50            \* ws_coding.py:107
SnapshotSeconds == 30      \* ws_coding.py:108
RunMaxAttempts == 15       \* ws_coding.py:169
TestMaxAttempts == 30      \* judge.py:170
PasteKeep == 200           \* ws_coding.py:245
PasteAlert == 100          \* ws_coding.py:251
TabAlert == 5              \* ws_coding.py:266
InQueue == 1               \* judge.py:178
Processing == 2            \* judge.py:178
Accepted == 3              \* judge.py:200

(* ------------------------- input domains ------------------------------- *)
Chans == {"w1", "w2"}
SessionIds == {"s1", "s2"}
\* "t1" is the two-case task of the specification, "t0" has no test case,
\* "tX" is an id no coding_tasks row has
TaskIds == {"t1", "t0", "tX"}
\* code texts are 'x' * n, given by their length n
CodeLens == {0, 50, 51}
\* "NOTSTR" stands for a JSON value that is not a string (null, a number)
Langs == {"python", "Python", "go", "cobol", "NOTSTR"}
PasteLens == {100, 101, 201}
\* judge status ids a poll may report: queued, processing, accepted,
\* compilation error
Statuses == {1, 2, 3, 6}
\* program outputs, as character sequences
Stdouts == {<<"6">>, <<"6", "\n">>, <<"0">>, <<" ", "1", " ">>}
\* the clock steps: exactly the snapshot interval, and one second more
TickSteps == {30, 31}

None == "none"

(* --------------------------- the database ------------------------------ *)
\* CodingTask.test_cases of each stored task (db.py:60)
TestCases(tid) ==
    CASE tid = "t1" -> << [input |-> "[1,2,3]", expected_output |-> <<"6">>],
                          [input |-> "[0]", expected_output |-> <<"0">>] >>
      [] OTHER -> << >>

\* TaskExists without the `if not task` check
TaskExists_any(tid) == TRUE

\* db.query(CodingTask).filter(CodingTask.id == task_id).first()
TaskExists(tid) == tid \in {"t1", "t0"}

(* --------------------------- frames ------------------------------------ *)
\* what receive_text can deliver: text that is not JSON, JSON that is not
\* an object, and objects with a "type" and the fields the handlers read
Frames ==
    {[kind |-> "badjson", type |-> None, code |-> 0, language |-> None, content |-> 0],
     [kind |-> "nonobject", type |-> None, code |-> 0, language |-> None, content |-> 0]}
    \cup {[kind |-> "object", type |-> "code_edit", code |-> c, language |-> None, content |-> 0]
            : c \in CodeLens}
    \cup {[kind |-> "object", type |-> t, code |-> 0, language |-> l, content |-> 0]
            : t \in {"run_code", "submit_code"}, l \in Langs}
    \cup {[kind |-> "object", type |-> "paste_event", code |-> 0, language |-> None, content |-> n]
            : n \in PasteLens}
    \cup {[kind |-> "object", type |-> t, code |-> 0, language |-> None, content |-> 0]
            : t \in {"tab_switch", "ping"}}

NoFrame == [kind |-> None, type |-> None, code |-> 0, language |-> None, content |-> 0]

(* ---------------------------- state ------------------------------------ *)
VARIABLES
    chan,                \* client side of each channel: "new", "open", "closed"
    pc,                  \* where the task of each channel stands
    args,                \* session_id and task_id of handle_coding_websocket
    msg,                 \* the frame being serviced
    loc,                 \* locals of the handler in progress
    out,                 \* the event send_message is about to be called with
    active_connections,  \* CodingSessionManager.active_connections
    code_snapshots,      \* CodingSessionManager.code_snapshots
    submissions,         \* number of code_submissions rows committed
    running,             \* the task holding the event loop, or None
    now,                 \* datetime.utcnow(), in seconds
    nrecv,               \* frames received so far
    sent,                \* history: events each task sent for its current frame
    calls,               \* history: executor calls made for the current frame
    captured,            \* history: every snapshot appended, per session
    conn_order,          \* history: channels in the order they connected
    tab_msgs,            \* history: tab_switch messages that reached each
                         \* session's connection since it was registered
    edits,               \* history: the last two code_edit messages that
                         \* reached each session, as [code, timestamp]
    exit                 \* history: what ended each task's loop

vars == <<chan, pc, args, msg, loc, out, active_connections, code_snapshots,
          submissions, running, now, nrecv, sent, calls, captured, conn_order,
          tab_msgs, edits, exit>>

(* ------------------------- values of locals ---------------------------- *)
NoArgs == [session_id |-> None, task_id |-> None]

\* locals of the handler in progress.  result is <<>> for None and <<r>>
\* for a CodeResultResponse r; pre is the snapshot list as the handler
\* found it and before the session's state as the frame found it (history)
NoLoc ==
    [language_id |-> 0, attempt |-> 0, result |-> << >>, i |-> 0,
     test_results |-> << >>, passed_tests |-> 0, task_id |-> None,
     timestamp |-> 0, should_snapshot |-> FALSE, pre |-> << >>,
     before |-> [record |-> << >>, snapshots |-> << >>]]

NoEvent == [type |-> None, to |-> None, success |-> FALSE, error |-> "",
            payload |-> << >>]

Event(type, success, error, payload) ==
    [type |-> type, to |-> None, success |-> success, error |-> error,
     payload |-> payload]

NoCalls == [submits |-> << >>, fetches |-> 0, failed |-> FALSE]

(* ----------------------- CodingSessionManager -------------------------- *)
\* the dict connect stores for a session
NewConnection(websocket, task_id, t) ==
    [websocket |-> websocket, task_id |-> task_id, last_code |-> 0,
     last_activity |-> t, paste_events |-> << >>, tab_switches |-> 0]

\* connect_registry that takes paste_events and tab_switches over from the
\* entry it replaces
connect_registry_carry_over(ac, websocket, session_id, task_id, t) ==
    [s \in DOMAIN ac \cup {session_id} |->
        IF s # session_id THEN ac[s]
        ELSE IF s \in DOMAIN ac
        THEN [NewConnection(websocket, task_id, t) EXCEPT
                 !.paste_events = ac[s].paste_events,
                 !.tab_switches = ac[s].tab_switches]
        ELSE NewConnection(websocket, task_id, t)]

\* connect_registry with dict.setdefault: a registered id keeps its entry
connect_registry_keep_first(ac, websocket, session_id, task_id, t) ==
    [s \in DOMAIN ac \cup {session_id} |->
        IF s \in DOMAIN ac THEN ac[s] ELSE NewConnection(websocket, task_id, t)]

\* self.active_connections[session_id] = {...}
connect_registry(ac, websocket, session_id, task_id, t) ==
    [s \in DOMAIN ac \cup {session_id} |->
        IF s = session_id THEN NewConnection(websocket, task_id, t) ELSE ac[s]]

\* connect_snapshots without the `if`: the list is emptied on every connect
connect_snapshots_reset(cs, session_id) ==
    [s \in DOMAIN cs \cup {session_id} |->
        IF s = session_id THEN << >> ELSE cs[s]]

\* if session_id not in self.code_snapshots: self.code_snapshots[session_id] = []
connect_snapshots(cs, session_id) ==
    [s \in DOMAIN cs \cup {session_id} |->
        IF s \in DOMAIN cs THEN cs[s] ELSE << >>]

\* if session_id in self.active_connections: del self.active_connections[session_id]
disconnect(ac, session_id) ==
    [s \in DOMAIN ac \ {session_id} |-> ac[s]]

\* should_snapshot with a timer of 20 seconds for 30
should_snapshot_from_20(snapshots, code, timestamp) ==
    \/ Len(snapshots) = 0
    \/ code - snapshots[Len(snapshots)].code > CharDelta
    \/ timestamp - snapshots[Len(snapshots)].timestamp >= 20

\* should_snapshot with `len(snapshots) == 0 and code`: a first edit with
\* empty code is not captured
should_snapshot_skip_empty_code(snapshots, code, timestamp) ==
    IF Len(snapshots) = 0 THEN code > 0
    ELSE \/ code - snapshots[Len(snapshots)].code > CharDelta
         \/ timestamp - snapshots[Len(snapshots)].timestamp > SnapshotSeconds

\* the snapshot policy of _handle_code_edit
should_snapshot(snapshots, code, timestamp) ==
    \/ Len(snapshots) = 0
    \/ code - snapshots[Len(snapshots)].code > CharDelta
    \/ timestamp - snapshots[Len(snapshots)].timestamp > SnapshotSeconds

\* append_snapshot with snapshots.pop() for snapshots.pop(0): the newest
\* entry is dropped at the cap, not the oldest
append_snapshot_pop_last(snapshots, snap) ==
    LET appended == Append(snapshots, snap)
    IN  IF Len(appended) > SnapshotCap
        THEN SubSeq(appended, 1, Len(appended) - 1)
        ELSE appended

\* snapshots.append(...); if len(snapshots) > 20: snapshots.pop(0)
append_snapshot(snapshots, snap) ==
    LET appended == Append(snapshots, snap)
    IN  IF Len(appended) > SnapshotCap THEN Tail(appended) ELSE appended

(* ------------------------------ Init ----------------------------------- *)
Init ==
    /\ chan = [c \in Chans |-> "new"]
    /\ pc = [c \in Chans |-> "start"]
    /\ args = [c \in Chans |-> NoArgs]
    /\ msg = [c \in Chans |-> NoFrame]
    /\ loc = [c \in Chans |-> NoLoc]
    /\ out = [c \in Chans |-> NoEvent]
    /\ active_connections = [s \in {} |-> NewConnection(None, None, 0)]
    /\ code_snapshots = [s \in {} |-> << >>]
    /\ submissions = 0
    /\ running = None
    /\ now = 0
    /\ nrecv = 0
    /\ sent = [c \in Chans |-> << >>]
    /\ calls = [c \in Chans |-> NoCalls]
    /\ captured = [s \in SessionIds |-> << >>]
    /\ conn_order = << >>
    /\ tab_msgs = [s \in SessionIds |-> 0]
    /\ edits = [s \in SessionIds |-> << >>]
    /\ exit = [c \in Chans |-> None]

(* ------------------------- the environment ----------------------------- *)
\* the wall clock advances
Tick(d) ==
    /\ running = None
    /\ now + d <= MaxTime
    /\ now' = now + d
    /\ UNCHANGED <<chan, pc, args, msg, loc, out, active_connections,
                   code_snapshots, submissions, running, nrecv, sent, calls,
                   captured, conn_order, tab_msgs, edits, exit>>

\* the client closes its end of the channel (or the transport breaks).
\* The server reads chan only in Receive, RecvDisconnect and SendMessage, so
\* a close while a task holds the event loop is the same close taken just
\* before that task got the loop: Receive still delivers the frames the
\* client sent before it closed.
ClientClose(ch) ==
    /\ running = None
    /\ chan[ch] = "open"
    /\ chan' = [chan EXCEPT ![ch] = "closed"]
    /\ UNCHANGED <<pc, args, msg, loc, out, active_connections, code_snapshots,
                   submissions, running, now, nrecv, sent, calls, captured,
                   conn_order, tab_msgs, edits, exit>>

(* ---------------------- handle_coding_websocket ------------------------ *)
\* await coding_session_manager.connect(websocket, session_id, task_id)
Connect(ch, session_id, task_id) ==
    /\ running = None
    /\ pc[ch] = "start"
    /\ chan[ch] = "new"
    /\ chan' = [chan EXCEPT ![ch] = "open"]
    /\ args' = [args EXCEPT ![ch] = [session_id |-> session_id, task_id |-> task_id]]
    /\ active_connections' =
           connect_registry(active_connections, ch, session_id, task_id, now)
    /\ code_snapshots' = connect_snapshots(code_snapshots, session_id)
    /\ conn_order' = Append(conn_order, ch)
    /\ tab_msgs' = [tab_msgs EXCEPT ![session_id] = 0]
    /\ pc' = [pc EXCEPT ![ch] = "receive"]
    /\ UNCHANGED <<msg, loc, out, submissions, running, now, nrecv, sent,
                   calls, captured, edits, exit>>

\* the session's connection record and snapshot list as a frame finds them
\* (<<>> where the session has none)
Before(ac, cs, session_id) ==
    [record |-> IF session_id \in DOMAIN ac THEN <<ac[session_id]>> ELSE << >>,
     snapshots |-> IF session_id \in DOMAIN cs THEN <<cs[session_id]>> ELSE << >>]

\* the last two entries of a sequence (all of a shorter one)
LastTwo(seq) == IF Len(seq) <= 2 THEN seq ELSE SubSeq(seq, Len(seq) - 1, Len(seq))

\* data = await websocket.receive_text() delivers a frame, the nrecv-th of
\* at most `limit`
ReceiveUpTo(ch, frame, limit) ==
    /\ running = None
    /\ pc[ch] = "receive"
    /\ chan[ch] \in {"open", "closed"}
    /\ nrecv < limit
    /\ nrecv' = nrecv + 1
    /\ msg' = [msg EXCEPT ![ch] = frame]
    /\ loc' = [loc EXCEPT ![ch].before =
                  Before(active_connections, code_snapshots, args[ch].session_id)]
    /\ tab_msgs' =
           IF /\ frame.type = "tab_switch"
              /\ args[ch].session_id \in DOMAIN active_connections
           THEN [tab_msgs EXCEPT ![args[ch].session_id] = @ + 1]
           ELSE tab_msgs
    /\ edits' =
           IF /\ frame.type = "code_edit"
              /\ args[ch].session_id \in DOMAIN active_connections
           THEN [edits EXCEPT ![args[ch].session_id] =
                    LastTwo(Append(@, [code |-> frame.code, timestamp |-> now]))]
           ELSE edits
    /\ pc' = [pc EXCEPT ![ch] = "dispatch"]
    /\ running' = ch
    /\ UNCHANGED <<chan, args, out, active_connections, code_snapshots,
                   submissions, now, sent, calls, captured, conn_order, exit>>

Receive(ch, frame) == ReceiveUpTo(ch, frame, MaxMsgs)

\* receive_text raises WebSocketDisconnect (or a transport error):
\* coding_session_manager.disconnect(session_id), and the task ends
RecvDisconnect(ch) ==
    /\ running = None
    /\ pc[ch] = "receive"
    /\ chan[ch] = "closed"
    /\ active_connections' = disconnect(active_connections, args[ch].session_id)
    /\ pc' = [pc EXCEPT ![ch] = "done"]
    /\ exit' = [exit EXCEPT ![ch] = "WebSocketDisconnect"]
    /\ UNCHANGED <<chan, args, msg, loc, out, code_snapshots, submissions,
                   running, now, nrecv, sent, calls, captured, conn_order, tab_msgs, edits>>

\* json.loads raises JSONDecodeError: send_message(error "Invalid JSON message")
ParseError(ch) ==
    /\ running = ch
    /\ pc[ch] = "dispatch"
    /\ msg[ch].kind = "badjson"
    /\ out' = [out EXCEPT ![ch] = Event("error", FALSE, "Invalid JSON message", << >>)]
    /\ pc' = [pc EXCEPT ![ch] = "send"]
    /\ UNCHANGED <<chan, args, msg, loc, active_connections, code_snapshots,
                   submissions, running, now, nrecv, sent, calls, captured,
                   conn_order, tab_msgs, edits, exit>>

\* Dropped without the `if session_id not in self.active_connections:
\* return` of handle_message: _handle_run_code, which never reads the
\* session's record, goes on to submit the code
Dropped_run_code_served(ch) ==
    /\ running = ch
    /\ pc[ch] = "dispatch"
    /\ msg[ch].kind # "badjson"
    /\ args[ch].session_id \notin DOMAIN active_connections
    /\ pc' = [pc EXCEPT ![ch] = IF msg[ch].type = "run_code" THEN "run_submit"
                                ELSE "handled"]
    /\ UNCHANGED <<chan, args, msg, loc, out, active_connections, code_snapshots,
                   submissions, running, now, nrecv, sent, calls, captured,
                   conn_order, tab_msgs, edits, exit>>

\* handle_message returns at once for a session id that is not registered
Dropped(ch) ==
    /\ running = ch
    /\ pc[ch] = "dispatch"
    /\ msg[ch].kind # "badjson"
    /\ args[ch].session_id \notin DOMAIN active_connections
    /\ pc' = [pc EXCEPT ![ch] = "handled"]
    /\ UNCHANGED <<chan, args, msg, loc, out, active_connections, code_snapshots,
                   submissions, running, now, nrecv, sent, calls, captured,
                   conn_order, tab_msgs, edits, exit>>

\* message.get("type") on a JSON value that is no object raises
\* AttributeError outside handle_message's try; the loop's inner try only
\* catches JSONDecodeError, so `except Exception` runs disconnect and the
\* task ends
NonObject(ch) ==
    /\ running = ch
    /\ pc[ch] = "dispatch"
    /\ msg[ch].kind = "nonobject"
    /\ args[ch].session_id \in DOMAIN active_connections
    /\ active_connections' = disconnect(active_connections, args[ch].session_id)
    /\ pc' = [pc EXCEPT ![ch] = "done"]
    /\ exit' = [exit EXCEPT ![ch] = "AttributeError"]
    /\ running' = None
    /\ UNCHANGED <<chan, args, msg, loc, out, code_snapshots, submissions,
                   now, nrecv, sent, calls, captured, conn_order, tab_msgs, edits>>

\* the guard shared by the handlers handle_message dispatches to
Dispatched(ch, type) ==
    /\ running = ch
    /\ pc[ch] = "dispatch"
    /\ msg[ch].kind = "object"
    /\ msg[ch].type = type
    /\ args[ch].session_id \in DOMAIN active_connections

(* --------------------------- handlers ---------------------------------- *)
\* _handle_code_edit up to the send of edit_ack
HandleCodeEdit(ch) ==
    /\ Dispatched(ch, "code_edit")
    /\ LET session_id == args[ch].session_id
           code == msg[ch].code
           timestamp == now
           snapshots == code_snapshots[session_id]
           take == should_snapshot(snapshots, code, timestamp)
           snap == [code |-> code, timestamp |-> timestamp]
       IN  /\ active_connections' =
                  [active_connections EXCEPT ![session_id].last_code = code,
                                             ![session_id].last_activity = timestamp]
           /\ code_snapshots' =
                  IF take
                  THEN [code_snapshots EXCEPT ![session_id] = append_snapshot(snapshots, snap)]
                  ELSE code_snapshots
           /\ captured' =
                  IF take
                  THEN [captured EXCEPT ![session_id] = Append(@, snap)]
                  ELSE captured
           /\ loc' = [loc EXCEPT ![ch] = [NoLoc EXCEPT !.timestamp = timestamp,
                                                       !.should_snapshot = take,
                                                       !.pre = snapshots]]
           /\ out' = [out EXCEPT ![ch] = Event("edit_ack", TRUE, "", <<timestamp>>)]
    /\ pc' = [pc EXCEPT ![ch] = "send"]
    /\ UNCHANGED <<chan, args, msg, submissions, running, now, nrecv, sent,
                   calls, conn_order, tab_msgs, edits, exit>>

\* Truncate with pasted_content for pasted_content[:200]
Truncate_whole(n) == n

\* pasted_content[:200], by length
Truncate(n) == IF n > PasteKeep THEN PasteKeep ELSE n

\* paste_alert with >= for >
paste_alert_at_threshold(n) == n >= PasteAlert

\* if len(pasted_content) > 100
paste_alert(n) == n > PasteAlert

\* HandlePasteEvent that also stores the pasted content as the session's
\* last code
HandlePasteEvent_sets_last_code(ch) ==
    /\ Dispatched(ch, "paste_event")
    /\ LET session_id == args[ch].session_id
           n == msg[ch].content
           event == [content |-> Truncate(n), timestamp |-> now, length |-> n]
       IN  /\ active_connections' =
                  [active_connections EXCEPT
                      ![session_id].paste_events = Append(@, event),
                      ![session_id].last_code = n]
           /\ IF paste_alert(n)
              THEN /\ out' = [out EXCEPT ![ch] =
                                 Event("proctor_alert", TRUE, "", <<"large_paste", "medium">>)]
                   /\ pc' = [pc EXCEPT ![ch] = "send"]
              ELSE /\ out' = out
                   /\ pc' = [pc EXCEPT ![ch] = "handled"]
    /\ UNCHANGED <<chan, args, msg, loc, code_snapshots, submissions, running,
                   now, nrecv, sent, calls, captured, conn_order, tab_msgs, edits, exit>>

\* _handle_paste_event
HandlePasteEvent(ch) ==
    /\ Dispatched(ch, "paste_event")
    /\ LET session_id == args[ch].session_id
           n == msg[ch].content
           event == [content |-> Truncate(n), timestamp |-> now, length |-> n]
       IN  /\ active_connections' =
                  [active_connections EXCEPT
                      ![session_id].paste_events = Append(@, event)]
           /\ IF paste_alert(n)
              THEN /\ out' = [out EXCEPT ![ch] =
                                 Event("proctor_alert", TRUE, "", <<"large_paste", "medium">>)]
                   /\ pc' = [pc EXCEPT ![ch] = "send"]
              ELSE /\ out' = out
                   /\ pc' = [pc EXCEPT ![ch] = "handled"]
    /\ UNCHANGED <<chan, args, msg, loc, code_snapshots, submissions, running,
                   now, nrecv, sent, calls, captured, conn_order, tab_msgs, edits, exit>>

\* tab_alert with >= for >
tab_alert_at_threshold(count) == count >= TabAlert

\* if connection["tab_switches"] > 5
tab_alert(count) == count > TabAlert

\* _handle_tab_switch
HandleTabSwitch(ch) ==
    /\ Dispatched(ch, "tab_switch")
    /\ LET session_id == args[ch].session_id
           count == active_connections[session_id].tab_switches + 1
       IN  /\ active_connections' =
                  [active_connections EXCEPT ![session_id].tab_switches = count]
           /\ IF tab_alert(count)
              THEN /\ out' = [out EXCEPT ![ch] =
                                 Event("proctor_alert", TRUE, "",
                                       <<"excessive_tab_switching", "high", count>>)]
                   /\ pc' = [pc EXCEPT ![ch] = "send"]
              ELSE /\ out' = out
                   /\ pc' = [pc EXCEPT ![ch] = "handled"]
    /\ UNCHANGED <<chan, args, msg, loc, code_snapshots, submissions, running,
                   now, nrecv, sent, calls, captured, conn_order, tab_msgs, edits, exit>>

KnownTypes == {"code_edit", "run_code", "submit_code", "paste_event", "tab_switch"}

\* HandleUnknown with `pass` in the else branch: an unknown type is ignored
HandleUnknown_silent(ch) ==
    /\ running = ch
    /\ pc[ch] = "dispatch"
    /\ msg[ch].kind = "object"
    /\ msg[ch].type \notin KnownTypes
    /\ args[ch].session_id \in DOMAIN active_connections
    /\ pc' = [pc EXCEPT ![ch] = "handled"]
    /\ UNCHANGED <<chan, args, msg, loc, out, active_connections, code_snapshots,
                   submissions, running, now, nrecv, sent, calls, captured,
                   conn_order, tab_msgs, edits, exit>>

\* the else branch of handle_message: error "Unknown message type: ..."
HandleUnknown(ch) ==
    /\ running = ch
    /\ pc[ch] = "dispatch"
    /\ msg[ch].kind = "object"
    /\ msg[ch].type \notin KnownTypes
    /\ args[ch].session_id \in DOMAIN active_connections
    /\ out' = [out EXCEPT ![ch] =
                  Event("error", FALSE, "Unknown message type", <<msg[ch].type>>)]
    /\ pc' = [pc EXCEPT ![ch] = "send"]
    /\ UNCHANGED <<chan, args, msg, loc, active_connections, code_snapshots,
                   submissions, running, now, nrecv, sent, calls, captured,
                   conn_order, tab_msgs, edits, exit>>

(* --------------------------- send_message ------------------------------ *)
\* the websocket send_message picks: the one registered for the session id
\* now, None when the id is not registered
Target(ac, session_id) ==
    IF session_id \in DOMAIN ac THEN ac[session_id].websocket ELSE None

\* send_message(session_id, out[ch]), the last statement of every handler
\* path.  Nothing is sent for an unregistered id.  send_json on a channel
\* whose client is gone either is dropped by the server or raises; a raise
\* passes every except clause (each sends again and raises again) and ends
\* the task in the loop's `except Exception`, which runs disconnect.
SendMessage(ch) ==
    /\ running = ch
    /\ pc[ch] = "send"
    /\ LET session_id == args[ch].session_id
           websocket == Target(active_connections, session_id)
       IN  IF websocket # None /\ chan[websocket] = "open"
           THEN /\ sent' = [sent EXCEPT ![ch] = Append(@, [out[ch] EXCEPT !.to = websocket])]
                /\ pc' = [pc EXCEPT ![ch] = "handled"]
                /\ UNCHANGED <<active_connections, exit, running>>
           ELSE \/ /\ pc' = [pc EXCEPT ![ch] = "handled"]
                   /\ UNCHANGED <<sent, active_connections, exit, running>>
                \/ /\ websocket # None
                   /\ active_connections' = disconnect(active_connections, session_id)
                   /\ pc' = [pc EXCEPT ![ch] = "done"]
                   /\ exit' = [exit EXCEPT ![ch] = "send failed"]
                   /\ running' = None
                   /\ UNCHANGED sent
    /\ out' = [out EXCEPT ![ch] = NoEvent]
    /\ UNCHANGED <<chan, args, msg, loc, code_snapshots, submissions, now,
                   nrecv, calls, captured, conn_order, tab_msgs, edits>>

\* handle_message has returned; the loop goes back to await receive_text
Loop(ch) ==
    /\ running = ch
    /\ pc[ch] = "handled"
    /\ pc' = [pc EXCEPT ![ch] = "receive"]
    /\ running' = None
    /\ msg' = [msg EXCEPT ![ch] = NoFrame]
    /\ loc' = [loc EXCEPT ![ch] = NoLoc]
    /\ sent' = [sent EXCEPT ![ch] = << >>]
    /\ calls' = [calls EXCEPT ![ch] = NoCalls]
    /\ UNCHANGED <<chan, args, out, active_connections, code_snapshots,
                   submissions, now, nrecv, captured, conn_order, tab_msgs, edits, exit>>

(* ------------------------ the code executor ---------------------------- *)
\* a CodeResultResponse; stdout is a character sequence (<<>> for None),
\* stderr and compile_output are "" for None
Result(status, stdout, stderr, compile_output) ==
    [status |-> status, stdout |-> stdout, stderr |-> stderr,
     compile_output |-> compile_output]

\* what get_submission_result can return for a token
JudgeResults ==
    {Result(s, << >>, "", "") : s \in Statuses \cap {InQueue, Processing}}
    \cup {Result(Accepted, o, "", "") : o \in Stdouts}
    \cup {Result(s, << >>, "", "compile error") : s \in Statuses \ {InQueue, Processing, Accepted}}

\* Terminal with `status_id == 3`: only an accepted result ends the polling
Terminal_only_accepted(result) == result.status = Accepted

\* status_id not in [1, 2]
Terminal(result) == result.status \notin {InQueue, Processing}

\* str.lower() on the language names a frame may carry
Lower(language) == IF language = "Python" THEN "python" ELSE language

\* language_map with the entries of judge.py's LANGUAGE_MAP
language_map_of_judge ==
    [l \in {"python", "javascript", "java", "cpp", "c", "go", "rust", "typescript"} |->
        CASE l = "python" -> 71 [] l = "javascript" -> 63 [] l = "java" -> 62
          [] l = "cpp" -> 54 [] l = "c" -> 50 [] l = "go" -> 60
          [] l = "rust" -> 73 [] OTHER -> 74]

\* language_map of _handle_run_code
language_map ==
    [l \in {"python", "javascript", "java", "cpp", "c"} |->
        CASE l = "python" -> 71 [] l = "javascript" -> 63 [] l = "java" -> 62
          [] l = "cpp" -> 54 [] OTHER -> 50]

\* LANGUAGE_MAP of judge.py
LANGUAGE_MAP ==
    [l \in {"python", "javascript", "java", "cpp", "c", "go", "rust", "typescript"} |->
        CASE l = "python" -> 71 [] l = "javascript" -> 63 [] l = "java" -> 62
          [] l = "cpp" -> 54 [] l = "c" -> 50 [] l = "go" -> 60
          [] l = "rust" -> 73 [] OTHER -> 74]

\* one more executor call recorded: a submit for test case `test` (0 for an
\* interactive run) or a fetch_result for the current token
CallSubmit(c, test) ==
    [submits |-> Append(c.submits, test), fetches |-> 0, failed |-> FALSE]

CallFetch(c) == [c EXCEPT !.fetches = @ + 1]

\* the executor call recorded last raised
CallFailed(c) == [c EXCEPT !.failed = TRUE]

(* ----------------------------- run_code -------------------------------- *)
\* _handle_run_code up to `try:`.  language.lower() on a value that is no
\* string raises AttributeError before the try, so handle_message's except
\* answers with an `error` event.
HandleRunCode(ch) ==
    /\ Dispatched(ch, "run_code")
    /\ LET language == msg[ch].language
       IN  IF language = "NOTSTR"
           THEN /\ out' = [out EXCEPT ![ch] =
                              Event("error", FALSE, "Error handling message", << >>)]
                /\ pc' = [pc EXCEPT ![ch] = "send"]
                /\ loc' = loc
           ELSE IF Lower(language) \notin DOMAIN language_map
           THEN /\ out' = [out EXCEPT ![ch] =
                              Event("run_result", FALSE, "Unsupported language", << >>)]
                /\ pc' = [pc EXCEPT ![ch] = "send"]
                /\ loc' = loc
           ELSE /\ loc' = [loc EXCEPT ![ch] =
                              [NoLoc EXCEPT !.language_id = language_map[Lower(language)]]]
                /\ pc' = [pc EXCEPT ![ch] = "run_submit"]
                /\ out' = out
    /\ UNCHANGED <<chan, args, msg, active_connections, code_snapshots,
                   submissions, running, now, nrecv, sent, calls, captured,
                   conn_order, tab_msgs, edits, exit>>

\* submission = await submit_code(request, db): a blocking requests.post;
\* an HTTPException lands in the handler's except
RunSubmit(ch, ok) ==
    /\ running = ch
    /\ pc[ch] = "run_submit"
    /\ calls' = [calls EXCEPT ![ch] =
                    IF ok THEN CallSubmit(@, 0) ELSE CallFailed(CallSubmit(@, 0))]
    /\ IF ok
       THEN /\ pc' = [pc EXCEPT ![ch] = "run_poll"]
            /\ out' = out
       ELSE /\ out' = [out EXCEPT ![ch] =
                          Event("run_result", FALSE, "Judge0 error", << >>)]
            /\ pc' = [pc EXCEPT ![ch] = "send"]
    /\ UNCHANGED <<chan, args, msg, loc, active_connections, code_snapshots,
                   submissions, running, now, nrecv, sent, captured,
                   conn_order, tab_msgs, edits, exit>>

\* where the run_code loop goes after one poll that returned `result`
run_after_poll(result) == IF Terminal(result) THEN "run_done" ELSE "run_sleep"

\* RunPoll with the Test Runner's `except Exception: pass` round the fetch:
\* a failed poll is followed by the sleep and the next attempt
RunPoll_retry(ch, fetched) ==
    /\ running = ch
    /\ pc[ch] = "run_poll"
    /\ calls' = [calls EXCEPT ![ch] =
                    IF fetched # << >> THEN CallFetch(@) ELSE CallFailed(CallFetch(@))]
    /\ loc' = [loc EXCEPT ![ch].result = IF fetched # << >> THEN fetched ELSE @]
    /\ pc' = [pc EXCEPT ![ch] =
                 IF fetched # << >> THEN run_after_poll(fetched[1]) ELSE "run_sleep"]
    /\ running' = IF fetched # << >> /\ Terminal(fetched[1]) THEN ch ELSE None
    /\ UNCHANGED <<chan, args, msg, out, active_connections, code_snapshots,
                   submissions, now, nrecv, sent, captured, conn_order, tab_msgs, edits, exit>>

\* one iteration of `for _ in range(max_attempts)`: the blocking
\* get_submission_result, which returns <<r>> or raises (<<>>), then break
\* or await asyncio.sleep(1)
RunPoll(ch, fetched) ==
    /\ running = ch
    /\ pc[ch] = "run_poll"
    /\ calls' = [calls EXCEPT ![ch] =
                    IF fetched # << >> THEN CallFetch(@) ELSE CallFailed(CallFetch(@))]
    /\ IF fetched # << >>
       THEN /\ loc' = [loc EXCEPT ![ch].result = fetched]
            /\ pc' = [pc EXCEPT ![ch] = run_after_poll(fetched[1])]
            /\ running' = IF Terminal(fetched[1]) THEN ch ELSE None
            /\ out' = out
       ELSE /\ out' = [out EXCEPT ![ch] =
                          Event("run_result", FALSE, "Judge0 error", << >>)]
            /\ pc' = [pc EXCEPT ![ch] = "send"]
            /\ UNCHANGED <<loc, running>>
    /\ UNCHANGED <<chan, args, msg, active_connections, code_snapshots,
                   submissions, now, nrecv, sent, captured, conn_order, tab_msgs, edits, exit>>

\* whether range(max_attempts) has another iteration after `attempts` of them
run_more(attempts) == attempts < RunMaxAttempts

\* asyncio.sleep(1) is over and the task gets the loop back
RunWake(ch) ==
    /\ running = None
    /\ pc[ch] = "run_sleep"
    /\ running' = ch
    /\ loc' = [loc EXCEPT ![ch].attempt = @ + 1]
    /\ pc' = [pc EXCEPT ![ch] =
                 IF run_more(loc[ch].attempt + 1) THEN "run_poll" ELSE "run_done"]
    /\ UNCHANGED <<chan, args, msg, out, active_connections, code_snapshots,
                   submissions, now, nrecv, sent, calls, captured, conn_order, tab_msgs, edits,
                   exit>>

\* the event _handle_run_code sends after the loop: `if result:` is true
\* of every CodeResultResponse, terminal or not
run_result(result) ==
    IF result # << >>
    THEN Event("run_result", TRUE, "", result)
    ELSE Event("run_result", FALSE, "Execution timeout", << >>)

\* db.close() and the run_result after the loop
RunFinish(ch) ==
    /\ running = ch
    /\ pc[ch] = "run_done"
    /\ out' = [out EXCEPT ![ch] = run_result(loc[ch].result)]
    /\ pc' = [pc EXCEPT ![ch] = "send"]
    /\ UNCHANGED <<chan, args, msg, loc, active_connections, code_snapshots,
                   submissions, running, now, nrecv, sent, calls, captured,
                   conn_order, tab_msgs, edits, exit>>

(* ------------------------ run_code_tests ------------------------------- *)
Whitespace == {" ", "\t", "\n"}

RECURSIVE LStrip(_)
LStrip(str) ==
    IF str # << >> /\ Head(str) \in Whitespace THEN LStrip(Tail(str)) ELSE str

RECURSIVE RStrip(_)
RStrip(str) ==
    IF str # << >> /\ str[Len(str)] \in Whitespace
    THEN RStrip(SubSeq(str, 1, Len(str) - 1))
    ELSE str

\* str.strip()
Strip(str) == RStrip(LStrip(str))

\* TestRecordOf without the .strip() on the actual output
TestRecordOf_no_strip(i, test_case, result) ==
    LET expected_output == Strip(test_case.expected_output)
    IN  IF result = << >>
        THEN [test_case |-> i, passed |-> FALSE, error |-> "Execution timeout",
              expected |-> expected_output, actual |-> << >>]
        ELSE LET r == result[1]
                 actual_output == r.stdout
             IN  IF r.status = Accepted
                 THEN [test_case |-> i, passed |-> actual_output = expected_output,
                       error |-> "", expected |-> expected_output,
                       actual |-> <<actual_output>>]
                 ELSE [test_case |-> i, passed |-> FALSE,
                       error |-> IF r.stderr # "" THEN r.stderr
                                 ELSE IF r.compile_output # "" THEN r.compile_output
                                 ELSE "Unknown error",
                       expected |-> expected_output,
                       actual |-> <<actual_output>>]

\* the test_results entry of one test case.  result is <<>> when no poll
\* ever returned, else <<r>> with the last CodeResultResponse fetched;
\* actual is <<>> for None
TestRecordOf(i, test_case, result) ==
    LET expected_output == Strip(test_case.expected_output)
    IN  IF result = << >>
        THEN [test_case |-> i, passed |-> FALSE, error |-> "Execution timeout",
              expected |-> expected_output, actual |-> << >>]
        ELSE LET r == result[1]
                 actual_output == Strip(r.stdout)
             IN  IF r.status = Accepted
                 THEN [test_case |-> i, passed |-> actual_output = expected_output,
                       error |-> "", expected |-> expected_output,
                       actual |-> <<actual_output>>]
                 ELSE [test_case |-> i, passed |-> FALSE,
                       error |-> IF r.stderr # "" THEN r.stderr
                                 ELSE IF r.compile_output # "" THEN r.compile_output
                                 ELSE "Unknown error",
                       expected |-> expected_output,
                       actual |-> <<actual_output>>]

\* Score with `//` for `/`: the quotient is floored before it is scaled
Score_floor_division(passed_tests, total_tests) ==
    IF total_tests > 0 THEN (passed_tests \div total_tests) * 100 ELSE 0

\* score = (passed_tests / total_tests) * 100 if total_tests > 0 else 0;
\* the quotient is exact for the tasks of TestCases (0 or 2 test cases)
Score(passed_tests, total_tests) ==
    IF total_tests > 0 THEN (passed_tests * 100) \div total_tests ELSE 0

\* _handle_submit_code and the head of run_code_tests: the task lookup and
\* the language lookup; every exception lands in the handler's except
HandleSubmitCode(ch) ==
    /\ Dispatched(ch, "submit_code")
    /\ LET language == msg[ch].language
           task_id == active_connections[args[ch].session_id].task_id
           fail(error) ==
               /\ out' = [out EXCEPT ![ch] = Event("submit_result", FALSE, error, << >>)]
               /\ pc' = [pc EXCEPT ![ch] = "send"]
               /\ loc' = loc
       IN  IF ~TaskExists(task_id) THEN fail("Coding task not found")
           ELSE IF language = "NOTSTR" THEN fail("AttributeError")
           ELSE IF Lower(language) \notin DOMAIN LANGUAGE_MAP THEN fail("Unsupported language")
           ELSE /\ loc' = [loc EXCEPT ![ch] =
                              [NoLoc EXCEPT !.language_id = LANGUAGE_MAP[Lower(language)],
                                            !.task_id = task_id,
                                            !.i = 1]]
                /\ pc' = [pc EXCEPT ![ch] = "test_next"]
                /\ out' = out
    /\ UNCHANGED <<chan, args, msg, active_connections, code_snapshots,
                   submissions, running, now, nrecv, sent, calls, captured,
                   conn_order, tab_msgs, edits, exit>>

\* the head of one iteration of `for i, test_case in enumerate(...)`:
\* submit_code for the test case; its HTTPException is not caught in
\* run_code_tests and ends the whole run
TestSubmit(ch, ok) ==
    /\ running = ch
    /\ pc[ch] = "test_next"
    /\ loc[ch].i <= Len(TestCases(loc[ch].task_id))
    /\ calls' = [calls EXCEPT ![ch] =
                    IF ok THEN CallSubmit(@, loc[ch].i)
                    ELSE CallFailed(CallSubmit(@, loc[ch].i))]
    /\ IF ok
       THEN /\ loc' = [loc EXCEPT ![ch].attempt = 0, ![ch].result = << >>]
            /\ pc' = [pc EXCEPT ![ch] = "test_poll"]
            /\ out' = out
       ELSE /\ out' = [out EXCEPT ![ch] =
                          Event("submit_result", FALSE, "Judge0 error", << >>)]
            /\ pc' = [pc EXCEPT ![ch] = "send"]
            /\ loc' = loc
    /\ UNCHANGED <<chan, args, msg, active_connections, code_snapshots,
                   submissions, running, now, nrecv, sent, captured,
                   conn_order, tab_msgs, edits, exit>>

\* test_more with range(max_attempts + 1): one poll too many
test_more_one_extra(attempts) == attempts <= TestMaxAttempts

\* whether range(max_attempts) has another iteration after `attempts` of them
test_more(attempts) == attempts < TestMaxAttempts

\* TestPoll without the try round the fetch: a failed poll ends the run and
\* _handle_submit_code reports it
TestPoll_abort_on_failure(ch, fetched) ==
    /\ running = ch
    /\ pc[ch] = "test_poll"
    /\ calls' = [calls EXCEPT ![ch] =
                    IF fetched # << >> THEN CallFetch(@) ELSE CallFailed(CallFetch(@))]
    /\ IF fetched = << >>
       THEN /\ out' = [out EXCEPT ![ch] =
                          Event("submit_result", FALSE, "Judge0 error", << >>)]
            /\ pc' = [pc EXCEPT ![ch] = "send"]
            /\ loc' = loc
       ELSE /\ out' = out
            /\ IF Terminal(fetched[1])
               THEN /\ loc' = [loc EXCEPT ![ch].result = fetched]
                    /\ pc' = [pc EXCEPT ![ch] = "test_record"]
               ELSE /\ loc' = [loc EXCEPT ![ch].result = fetched,
                                          ![ch].attempt = @ + 1]
                    /\ pc' = [pc EXCEPT ![ch] =
                                 IF test_more(loc[ch].attempt + 1) THEN "test_poll"
                                 ELSE "test_record"]
    /\ UNCHANGED <<chan, args, msg, active_connections, code_snapshots,
                   submissions, running, now, nrecv, sent, captured,
                   conn_order, tab_msgs, edits, exit>>

\* one iteration of `for attempt in range(max_attempts)`: the blocking
\* get_submission_result, which returns <<r>> or raises (<<>>, swallowed by
\* `except Exception: pass`), then break or the blocking time.sleep(1)
TestPoll(ch, fetched) ==
    /\ running = ch
    /\ pc[ch] = "test_poll"
    /\ calls' = [calls EXCEPT ![ch] =
                    IF fetched # << >> THEN CallFetch(@) ELSE CallFailed(CallFetch(@))]
    /\ IF fetched # << >> /\ Terminal(fetched[1])
       THEN /\ loc' = [loc EXCEPT ![ch].result = fetched]
            /\ pc' = [pc EXCEPT ![ch] = "test_record"]
       ELSE /\ loc' = [loc EXCEPT ![ch].result = IF fetched # << >> THEN fetched ELSE @,
                                  ![ch].attempt = @ + 1]
            /\ pc' = [pc EXCEPT ![ch] =
                         IF test_more(loc[ch].attempt + 1) THEN "test_poll" ELSE "test_record"]
    /\ UNCHANGED <<chan, args, msg, out, active_connections, code_snapshots,
                   submissions, running, now, nrecv, sent, captured,
                   conn_order, tab_msgs, edits, exit>>

\* the rest of the iteration: the test_results entry of the test case.
\* attempt and the token are not read again (the next iteration assigns
\* them anew), so they are cleared here; result keeps its value until the
\* next iteration's `result = None`.
TestRecord(ch) ==
    /\ running = ch
    /\ pc[ch] = "test_record"
    /\ LET i == loc[ch].i
           record == TestRecordOf(i, TestCases(loc[ch].task_id)[i], loc[ch].result)
       IN  loc' = [loc EXCEPT ![ch].test_results = Append(@, record),
                              ![ch].passed_tests = IF record.passed THEN @ + 1 ELSE @,
                              ![ch].i = i + 1,
                              ![ch].attempt = 0]
    /\ calls' = [calls EXCEPT ![ch].fetches = 0]
    /\ pc' = [pc EXCEPT ![ch] = "test_next"]
    /\ UNCHANGED <<chan, args, msg, out, active_connections, code_snapshots,
                   submissions, running, now, nrecv, sent, captured,
                   conn_order, tab_msgs, edits, exit>>

\* after the last test case: the score, db.add / db.commit of the
\* CodeSubmission, and the submit_result of _handle_submit_code
TestsDone(ch) ==
    /\ running = ch
    /\ pc[ch] = "test_next"
    /\ loc[ch].i > Len(TestCases(loc[ch].task_id))
    /\ LET total_tests == Len(TestCases(loc[ch].task_id))
           summary == [score |-> Score(loc[ch].passed_tests, total_tests),
                       passed_tests |-> loc[ch].passed_tests,
                       total_tests |-> total_tests,
                       test_results |-> loc[ch].test_results]
       IN  out' = [out EXCEPT ![ch] = Event("submit_result", TRUE, "", <<summary>>)]
    /\ submissions' = submissions + 1
    /\ pc' = [pc EXCEPT ![ch] = "send"]
    /\ UNCHANGED <<chan, args, msg, loc, active_connections, code_snapshots,
                   running, now, nrecv, sent, calls, captured, conn_order, tab_msgs, edits, exit>>

(* ------------------------- the specifications -------------------------- *)
\* what one poll can produce: the request fails (<<>>) or returns <<r>>
Fetched(results) == {<< >>} \cup {<<r>> : r \in results}

Frame(type, code, language, content) ==
    [kind |-> "object", type |-> type, code |-> code, language |-> language,
     content |-> content]

\* Spec: two channels that may share a session id, a few frames of every
\* kind, a judge that answers queued or accepted, or fails a request (the
\* failing poll of a test case is left to SpecTests)
SessionFrames ==
    {f \in Frames : f.kind # "object"}
    \cup {Frame("code_edit", 0, None, 0), Frame("run_code", 0, "python", 0),
          Frame("run_code", 0, "NOTSTR", 0), Frame("run_code", 0, "cobol", 0),
          Frame("submit_code", 0, "python", 0), Frame("paste_event", 0, None, 101),
          Frame("tab_switch", 0, None, 0), Frame("ping", 0, None, 0)}

SessionResults == {Result(InQueue, << >>, "", ""), Result(Accepted, <<"6">>, "", "")}

SessionTasks == {"t1"}

\* the session ids each channel may be opened for
SessionsOf(ch) == IF ch = "w1" THEN {"s1"} ELSE SessionIds

Next ==
    \E ch \in Chans :
       \/ ClientClose(ch)
       \/ \E s \in SessionsOf(ch), t \in SessionTasks : Connect(ch, s, t)
       \/ \E frame \in SessionFrames : Receive(ch, frame)
       \/ RecvDisconnect(ch)
       \/ ParseError(ch)
       \/ Dropped(ch)
       \/ NonObject(ch)
       \/ HandleCodeEdit(ch)
       \/ HandlePasteEvent(ch)
       \/ HandleTabSwitch(ch)
       \/ HandleUnknown(ch)
       \/ HandleRunCode(ch)
       \/ \E ok \in BOOLEAN : RunSubmit(ch, ok)
       \/ \E fetched \in Fetched(SessionResults) : RunPoll(ch, fetched)
       \/ RunWake(ch)
       \/ RunFinish(ch)
       \/ HandleSubmitCode(ch)
       \/ \E ok \in BOOLEAN : TestSubmit(ch, ok)
       \/ \E r \in SessionResults : TestPoll(ch, <<r>>)
       \/ TestRecord(ch)
       \/ TestsDone(ch)
       \/ SendMessage(ch)
       \/ Loop(ch)

Spec == Init /\ [][Next]_vars

\* SpecRun: one channel, run_code frames in every language, every judge
\* answer
RunFrames == {f \in Frames : f.type = "run_code"}

NextRun ==
    \/ ClientClose("w1")
    \/ Connect("w1", "s1", "t1")
    \/ \E frame \in RunFrames : Receive("w1", frame)
    \/ RecvDisconnect("w1")
    \/ HandleRunCode("w1")
    \/ \E ok \in BOOLEAN : RunSubmit("w1", ok)
    \/ \E fetched \in Fetched(JudgeResults) : RunPoll("w1", fetched)
    \/ RunWake("w1")
    \/ RunFinish("w1")
    \/ SendMessage("w1")
    \/ Loop("w1")

SpecRun == Init /\ [][NextRun]_vars

\* SpecTests: one channel bound to each task in turn, submit_code frames in
\* every language, every judge answer
TestFrames == {f \in Frames : f.type = "submit_code"}

NextTests ==
    \/ ClientClose("w1")
    \/ \E t \in TaskIds : Connect("w1", "s1", t)
    \/ \E frame \in TestFrames : Receive("w1", frame)
    \/ RecvDisconnect("w1")
    \/ HandleSubmitCode("w1")
    \/ \E ok \in BOOLEAN : TestSubmit("w1", ok)
    \/ \E fetched \in Fetched(JudgeResults) : TestPoll("w1", fetched)
    \/ TestRecord("w1")
    \/ TestsDone("w1")
    \/ SendMessage("w1")
    \/ Loop("w1")

SpecTests == Init /\ [][NextTests]_vars

\* SpecPoll: one channel on the two-case task, a run_code and a submit_code
\* frame in a supported language, every judge answer
PollFrames == {Frame("run_code", 0, "python", 0), Frame("submit_code", 0, "python", 0)}

NextPoll ==
    \/ ClientClose("w1")
    \/ Connect("w1", "s1", "t1")
    \/ \E frame \in PollFrames : Receive("w1", frame)
    \/ RecvDisconnect("w1")
    \/ HandleRunCode("w1")
    \/ \E ok \in BOOLEAN : RunSubmit("w1", ok)
    \/ \E fetched \in Fetched(JudgeResults) : RunPoll("w1", fetched)
    \/ RunWake("w1")
    \/ RunFinish("w1")
    \/ HandleSubmitCode("w1")
    \/ \E ok \in BOOLEAN : TestSubmit("w1", ok)
    \/ \E fetched \in Fetched(JudgeResults) : TestPoll("w1", fetched)
    \/ TestRecord("w1")
    \/ TestsDone("w1")
    \/ SendMessage("w1")
    \/ Loop("w1")

SpecPoll == Init /\ [][NextPoll]_vars

\* SpecTabs: both channels opened for session s1, up to MaxTabMsgs
\* tab_switch frames
TabFrames == {Frame("tab_switch", 0, None, 0)}

NextTabs ==
    \E ch \in Chans :
       \/ ClientClose(ch)
       \/ Connect(ch, "s1", "t1")
       \/ \E frame \in TabFrames : ReceiveUpTo(ch, frame, MaxTabMsgs)
       \/ RecvDisconnect(ch)
       \/ Dropped(ch)
       \/ HandleTabSwitch(ch)
       \/ SendMessage(ch)
       \/ Loop(ch)

SpecTabs == Init /\ [][NextTabs]_vars

\* SpecPaste: both channels opened for session s1, paste_event frames of
\* every length
PasteFrames == {f \in Frames : f.type = "paste_event"}

NextPaste ==
    \E ch \in Chans :
       \/ ClientClose(ch)
       \/ Connect(ch, "s1", "t1")
       \/ \E frame \in PasteFrames : Receive(ch, frame)
       \/ RecvDisconnect(ch)
       \/ Dropped(ch)
       \/ HandlePasteEvent(ch)
       \/ SendMessage(ch)
       \/ Loop(ch)

SpecPaste == Init /\ [][NextPaste]_vars

\* SpecProto: two channels that may share a session id and are bound to
\* either stored task; frames that are no JSON or of an unknown type among
\* frames that change the session's record and snapshot list
ProtoFrames ==
    {f \in Frames : f.kind = "badjson"}
    \cup {Frame("ping", 0, None, 0), Frame("code_edit", 51, None, 0),
          Frame("paste_event", 0, None, 101)}

ProtoTasks == {"t1", "t0"}

NextProto ==
    \E ch \in Chans :
       \/ ClientClose(ch)
       \/ \E s \in SessionsOf(ch), t \in ProtoTasks : Connect(ch, s, t)
       \/ \E frame \in ProtoFrames : Receive(ch, frame)
       \/ RecvDisconnect(ch)
       \/ ParseError(ch)
       \/ Dropped(ch)
       \/ HandleCodeEdit(ch)
       \/ HandlePasteEvent(ch)
       \/ HandleUnknown(ch)
       \/ SendMessage(ch)
       \/ Loop(ch)

SpecProto == Init /\ [][NextProto]_vars

\* SpecFrames: two channels that may share a session id and are bound to
\* either stored task, one frame of every type and one that is no JSON, a
\* judge that accepts or fails a request
AllFrames ==
    {f \in Frames : f.kind = "badjson"}
    \cup {Frame("code_edit", 51, None, 0), Frame("paste_event", 0, None, 101),
          Frame("tab_switch", 0, None, 0), Frame("run_code", 0, "python", 0),
          Frame("submit_code", 0, "python", 0)}

AcceptedResults == {Result(Accepted, <<"6">>, "", "")}

NextFrames ==
    \E ch \in Chans :
       \/ ClientClose(ch)
       \/ \E s \in SessionsOf(ch), t \in ProtoTasks : Connect(ch, s, t)
       \/ \E frame \in AllFrames : Receive(ch, frame)
       \/ RecvDisconnect(ch)
       \/ ParseError(ch)
       \/ Dropped(ch)
       \/ HandleCodeEdit(ch)
       \/ HandlePasteEvent(ch)
       \/ HandleTabSwitch(ch)
       \/ HandleRunCode(ch)
       \/ \E ok \in BOOLEAN : RunSubmit(ch, ok)
       \/ \E fetched \in Fetched(AcceptedResults) : RunPoll(ch, fetched)
       \/ RunFinish(ch)
       \/ HandleSubmitCode(ch)
       \/ \E ok \in BOOLEAN : TestSubmit(ch, ok)
       \/ \E r \in AcceptedResults : TestPoll(ch, <<r>>)
       \/ TestRecord(ch)
       \/ TestsDone(ch)
       \/ SendMessage(ch)
       \/ Loop(ch)

SpecFrames == Init /\ [][NextFrames]_vars

\* SpecTwice: both channels opened for session s1, up to MaxEditMsgs
\* code_edit frames with empty code or 51 characters, a clock that steps by
\* EditGaps
EditGaps == {10, 20}

EditFrames == {Frame("code_edit", 0, None, 0), Frame("code_edit", 51, None, 0)}

NextTwice ==
    \/ \E d \in EditGaps : Tick(d)
    \/ \E ch \in Chans :
          \/ ClientClose(ch)
          \/ Connect(ch, "s1", "t1")
          \/ \E frame \in EditFrames : ReceiveUpTo(ch, frame, MaxEditMsgs)
          \/ RecvDisconnect(ch)
          \/ Dropped(ch)
          \/ HandleCodeEdit(ch)
          \/ SendMessage(ch)
          \/ Loop(ch)

SpecTwice == Init /\ [][NextTwice]_vars

\* SpecSnap: session s1 with a snapshot history of 0, 19 or 20 entries left
\* by an earlier connection (k code_edit frames with empty code sent
\* SnapshotSeconds + 1 apart, the last one at time 0, then a close), both
\* channels opened for s1, code_edit frames of every length and a clock
\* that steps by TickSteps
SeedLens == {0, SnapshotCap - 1, SnapshotCap}

Seed(k) ==
    [j \in 1..k |-> [code |-> 0, timestamp |-> (j - k) * (SnapshotSeconds + 1)]]

SnapFrames ==
    {f \in Frames : f.type = "code_edit" \/ f.kind = "nonobject"}
    \cup {Frame("tab_switch", 0, None, 0)}

InitSnap ==
    \E k \in SeedLens :
       /\ chan = [c \in Chans |-> "new"]
       /\ pc = [c \in Chans |-> "start"]
       /\ args = [c \in Chans |-> NoArgs]
       /\ msg = [c \in Chans |-> NoFrame]
       /\ loc = [c \in Chans |-> NoLoc]
       /\ out = [c \in Chans |-> NoEvent]
       /\ active_connections = [s \in {} |-> NewConnection(None, None, 0)]
       /\ code_snapshots = [s \in (IF k = 0 THEN {} ELSE {"s1"}) |-> Seed(k)]
       /\ submissions = 0
       /\ running = None
       /\ now = 0
       /\ nrecv = 0
       /\ sent = [c \in Chans |-> << >>]
       /\ calls = [c \in Chans |-> NoCalls]
       /\ captured = [s \in SessionIds |-> IF s = "s1" THEN Seed(k) ELSE << >>]
       /\ conn_order = << >>
       /\ tab_msgs = [s \in SessionIds |-> 0]
       /\ edits = [s \in SessionIds |->
                      IF s = "s1" /\ k >= 2 THEN SubSeq(Seed(k), k - 1, k) ELSE << >>]
       /\ exit = [c \in Chans |-> None]

NextSnap ==
    \/ \E d \in TickSteps : Tick(d)
    \/ \E ch \in Chans :
          \/ ClientClose(ch)
          \/ Connect(ch, "s1", "t1")
          \/ \E frame \in SnapFrames : Receive(ch, frame)
          \/ RecvDisconnect(ch)
          \/ Dropped(ch)
          \/ NonObject(ch)
          \/ HandleCodeEdit(ch)
          \/ HandleTabSwitch(ch)
          \/ SendMessage(ch)
          \/ Loop(ch)

SpecSnap == InitSnap /\ [][NextSnap]_vars

\* SpecEdit: the same frames and clock from the empty snapshot store
SpecEdit == Init /\ [][NextSnap]_vars

(* ------------------------------ claims --------------------------------- *)
\* the task of ch is servicing a frame
InHandler(ch) == pc[ch] \notin {"start", "receive", "done"}

\* the events of type `type` the task of ch sent for its current frame
SentOfType(ch, type) == {i \in DOMAIN sent[ch] : sent[ch][i].type = type}

\* the reply event a frame type calls for
ReplyType(type) == IF type = "run_code" THEN "run_result" ELSE "submit_result"

\* C1: when the handling of a run_code (submit_code) frame is over and the
\* channel it came in on is still open, exactly one run_result
\* (submit_result) event was sent for it.
C1_ExactlyOneReply ==
    \A ch \in Chans :
       (/\ pc[ch] = "handled"
        /\ chan[ch] = "open"
        /\ msg[ch].type \in {"run_code", "submit_code"})
       => Cardinality(SentOfType(ch, ReplyType(msg[ch].type))) = 1

\* C2: a run_result sent after all RunMaxAttempts polls came back in
\* progress has success = false and the error "Execution timeout", and no
\* run_result with success = true carries an in-progress status.
C2_TimeoutReported ==
    \A ch \in Chans : \A i \in SentOfType(ch, "run_result") :
       LET event == sent[ch][i]
       IN  /\ loc[ch].attempt = RunMaxAttempts
              => (~event.success /\ event.error = "Execution timeout")
           /\ event.success => Terminal(event.payload[1])

\* the last n entries of a sequence (all of it when it is shorter)
LastN(seq, n) ==
    IF Len(seq) <= n THEN seq ELSE SubSeq(seq, Len(seq) - n + 1, Len(seq))

\* C3: every session's snapshot list has at most SnapshotCap entries, its
\* timestamps never decrease, and it is the last SnapshotCap snapshots
\* captured for the session, in capture order.
C3_SnapshotList ==
    \A s \in DOMAIN code_snapshots :
       LET snapshots == code_snapshots[s]
       IN  /\ Len(snapshots) <= SnapshotCap
           /\ \A i \in 1..(Len(snapshots) - 1) :
                 snapshots[i].timestamp <= snapshots[i + 1].timestamp
           /\ snapshots = LastN(captured[s], SnapshotCap)

\* C3 witness: a reconnected session whose 21st and 22nd snapshots were
\* captured, so that the oldest entries were evicted.
C3_Witness ==
    /\ Len(conn_order) = 2
    /\ Len(captured["s1"]) = SnapshotCap + 2
    /\ Len(code_snapshots["s1"]) = SnapshotCap
    /\ code_snapshots["s1"][1] = captured["s1"][3]

\* C4: a code_edit appends a snapshot exactly when the list was empty, or
\* the code is at least CharDelta longer than the last snapshot's, or at
\* least SnapshotSeconds have passed since the last snapshot.
C4_SnapshotPolicy ==
    \A ch \in Chans :
       (pc[ch] = "send" /\ msg[ch].type = "code_edit")
       => LET pre == loc[ch].pre
              claimed == \/ Len(pre) = 0
                         \/ msg[ch].code - pre[Len(pre)].code >= CharDelta
                         \/ loc[ch].timestamp - pre[Len(pre)].timestamp >= SnapshotSeconds
          IN  /\ loc[ch].should_snapshot <=> claimed
              /\ code_snapshots[args[ch].session_id] # pre <=> claimed

\* C5: no two tasks are servicing a frame for the same session id at the
\* same time.
C5_OneHandlerPerSession ==
    \A a, b \in Chans :
       (a # b /\ InHandler(a) /\ InHandler(b))
       => args[a].session_id # args[b].session_id

\* the channel most recently connected for session id s, None when there
\* is none
Latest(s) ==
    LET idx == {i \in DOMAIN conn_order : args[conn_order[i]].session_id = s}
    IN  IF idx = {} THEN None
        ELSE conn_order[CHOOSE i \in idx : \A j \in idx : j <= i]

\* C6: while the channel most recently connected for a session id is open
\* and its loop running, the session id is registered.
C6_RemovedOnlyByOwnClose ==
    \A s \in SessionIds :
       (/\ Latest(s) # None
        /\ chan[Latest(s)] = "open"
        /\ pc[Latest(s)] # "done")
       => s \in DOMAIN active_connections

\* C7: every event a task sends while servicing a frame goes out on the
\* channel the frame came in on.
C7_ReplyOnSameChannel ==
    \A ch \in Chans : \A i \in DOMAIN sent[ch] : sent[ch][i].to = ch

\* the task of ch is inside a polling loop: on a judge request or waiting
\* between polls
InPollingLoop(ch) == pc[ch] \in {"run_poll", "run_sleep", "test_poll"}

\* C8: while the task of one session is inside a polling loop, a frame of
\* another session that is waiting to be read can be received.
C8_SessionsIndependent ==
    \A a, b \in Chans :
       (/\ a # b
        /\ args[a].session_id # args[b].session_id
        /\ InPollingLoop(a)
        /\ pc[b] = "receive"
        /\ chan[b] = "open"
        /\ nrecv < MaxMsgs)
       => ENABLED (\E frame \in SessionFrames : Receive(b, frame))

\* C9: a task's loop ends only on channel close or a transport error.
C9_LoopSurvivesFrames ==
    \A ch \in Chans :
       pc[ch] = "done" => exit[ch] \in {"WebSocketDisconnect", "send failed"}

\* run_code_tests got past its task and language lookups
RunnerStarted(ch) ==
    /\ msg[ch].type = "submit_code"
    /\ args[ch].session_id \in DOMAIN active_connections
    /\ TaskExists(active_connections[args[ch].session_id].task_id)
    /\ msg[ch].language # "NOTSTR"
    /\ Lower(msg[ch].language) \in DOMAIN LANGUAGE_MAP

\* C10: when a Test Runner run is over, every test case of the task was
\* submitted to the executor exactly once, in order.
C10_EveryCaseSubmitted ==
    \A ch \in Chans :
       (pc[ch] = "handled" /\ RunnerStarted(ch))
       => LET n == Len(TestCases(active_connections[args[ch].session_id].task_id))
          IN  calls[ch].submits = [j \in 1..n |-> j]

\* the Test Runner of ch has recorded a test case and not yet submitted the
\* next one: loc[ch].result is what the polling of that test case left
Recorded(ch) ==
    /\ pc[ch] \in {"test_next", "send", "handled"}
    /\ loc[ch].test_results # << >>

\* the test_results entry recorded last
LastRecorded(ch) == loc[ch].test_results[Len(loc[ch].test_results)]

\* the polling that left `result` never obtained a terminal status
NeverTerminal(result) == result = << >> \/ ~Terminal(result[1])

\* C11: a test case whose polling never obtained a terminal status is
\* recorded as failed with the error "Execution timeout".
C11_TimeoutRecorded ==
    \A ch \in Chans :
       (Recorded(ch) /\ NeverTerminal(loc[ch].result))
       => /\ ~LastRecorded(ch).passed
          /\ LastRecorded(ch).error = "Execution timeout"

Summary(ch) == out[ch].payload[1]

\* the task of ch is about to send the summary of a finished Test Runner run
Summarised(ch) ==
    /\ pc[ch] = "send"
    /\ out[ch].type = "submit_result"
    /\ out[ch].success

\* C13: a test case is recorded as passed exactly when its terminal status
\* is 3 and its output equals the expected output, both trimmed; on the
\* two-case task outputs "6", "0" give 2 of 2 and score 100, and outputs
\* "6", " 1 " give 1 of 2 and score 50 with the second entry failed,
\* actual "1", expected "0".
C13_PassedIffAcceptedAndEqual ==
    \A ch \in Chans :
       /\ Recorded(ch)
          => LET rec == LastRecorded(ch)
                 result == loc[ch].result
                 test_case == TestCases(loc[ch].task_id)[rec.test_case]
             IN  rec.passed <=> /\ result # << >>
                                /\ result[1].status = 3
                                /\ Strip(result[1].stdout) = Strip(test_case.expected_output)
       /\ (/\ Summarised(ch)
           /\ loc[ch].task_id = "t1"
           /\ Summary(ch).test_results[1].error = ""
           /\ Summary(ch).test_results[1].actual = << <<"6">> >>
           /\ loc[ch].result # << >>
           /\ loc[ch].result[1].status = 3)
          => /\ loc[ch].result[1].stdout = <<"0">>
                => /\ Summary(ch).passed_tests = 2
                   /\ Summary(ch).total_tests = 2
                   /\ Summary(ch).score = 100
             /\ loc[ch].result[1].stdout = <<" ", "1", " ">>
                => /\ Summary(ch).passed_tests = 1
                   /\ Summary(ch).total_tests = 2
                   /\ Summary(ch).score = 50
                   /\ ~Summary(ch).test_results[2].passed
                   /\ Summary(ch).test_results[2].actual = << <<"1">> >>
                   /\ Summary(ch).test_results[2].expected = <<"0">>

\* C13 witness: the run whose first test case passed with actual "6" and
\* whose second output is " 1 " is summarised.
C13_Witness ==
    /\ Summarised("w1")
    /\ Summary("w1").total_tests = 2
    /\ Summary("w1").test_results[1].passed
    /\ Summary("w1").test_results[1].actual = << <<"6">> >>
    /\ loc["w1"].result # << >>
    /\ loc["w1"].result[1].status = 3
    /\ loc["w1"].result[1].stdout = <<" ", "1", " ">>
    /\ Summary("w1").score = 50

\* C14: a Test Runner summary has 0 <= passed_tests <= total_tests,
\* total_tests the number of test cases of the task, passed_tests the
\* number of entries with passed = true and score * total_tests =
\* passed_tests * 100; a run on the task without test cases ends with the
\* summary 0, 0, 0 and not with an error.
C14_ScoreArithmetic ==
    \A ch \in Chans :
       /\ Summarised(ch)
          => LET summary == Summary(ch)
                 passed == {k \in DOMAIN summary.test_results :
                               summary.test_results[k].passed}
             IN  /\ 0 <= summary.passed_tests
                 /\ summary.passed_tests <= summary.total_tests
                 /\ summary.total_tests = Len(TestCases(loc[ch].task_id))
                 /\ summary.passed_tests = Cardinality(passed)
                 /\ summary.total_tests > 0
                    => summary.score * summary.total_tests = summary.passed_tests * 100
                 /\ summary.total_tests = 0 => summary.score = 0
       /\ (/\ pc[ch] = "send"
           /\ RunnerStarted(ch)
           /\ active_connections[args[ch].session_id].task_id = "t0")
          => /\ Summarised(ch)
             /\ Summary(ch).score = 0
             /\ Summary(ch).passed_tests = 0
             /\ Summary(ch).total_tests = 0

\* C14 witness: a summary of the two-case task in which only the second
\* test case passed.
C14_Witness ==
    /\ Summarised("w1")
    /\ Summary("w1").total_tests = 2
    /\ Summary("w1").passed_tests = 1
    /\ ~Summary("w1").test_results[1].passed
    /\ Summary("w1").test_results[2].passed
    /\ Summary("w1").score = 50

\* the session id of ch is registered
Registered(ch) == args[ch].session_id \in DOMAIN active_connections

\* the channel send_message writes to for the session of ch is open
TargetOpen(ch) ==
    /\ Registered(ch)
    /\ chan[Target(active_connections, args[ch].session_id)] = "open"

\* what the task of ch sent for its frame, when its handler produced
\* exactly the event `event`: that event on the registered channel when it
\* is open, else that event or, the channel being gone, nothing
SentIs(ch, event) ==
    /\ Len(sent[ch]) <= 1
    /\ \A i \in DOMAIN sent[ch] :
          sent[ch][i] = [event EXCEPT !.to = Target(active_connections, args[ch].session_id)]
    /\ TargetOpen(ch) => Len(sent[ch]) = 1

\* C15: the n-th tab_switch message to reach a session's connection since
\* it was registered produces one excessive_tab_switching alert of severity
\* high carrying n when n > 5, and no event when n <= 5.
C15_TabAlertAfterFive ==
    \A ch \in Chans :
       (msg[ch].type = "tab_switch" /\ Registered(ch))
       => LET n == tab_msgs[args[ch].session_id]
              alert == Event("proctor_alert", TRUE, "",
                             <<"excessive_tab_switching", "high", n>>)
          IN  /\ pc[ch] = "send" => (n > 5 /\ out[ch] = alert)
              /\ pc[ch] = "handled"
                 => IF n > 5 THEN SentIs(ch, alert) ELSE sent[ch] = << >>

\* C15 witness: after one tab_switch on the first channel the session was
\* registered anew by the second, and the sixth tab_switch since then was
\* answered with the alert carrying 6.
C15_Witness ==
    /\ Len(conn_order) = 2
    /\ nrecv = 7
    /\ tab_msgs["s1"] = 6
    /\ \E ch \in Chans :
          /\ pc[ch] = "handled"
          /\ Len(sent[ch]) = 1
          /\ sent[ch][1].payload = <<"excessive_tab_switching", "high", 6>>

\* C16: a paste_event produces one large_paste alert of severity medium
\* when the pasted text is longer than 100 characters, and no event when it
\* is not.
C16_PasteAlertOver100 ==
    \A ch \in Chans :
       (msg[ch].type = "paste_event" /\ Registered(ch))
       => LET n == msg[ch].content
              alert == Event("proctor_alert", TRUE, "", <<"large_paste", "medium">>)
          IN  /\ pc[ch] = "send" => (n > 100 /\ out[ch] = alert)
              /\ pc[ch] = "handled"
                 => IF n > 100 THEN SentIs(ch, alert) ELSE sent[ch] = << >>

\* C16 witness: a paste of 101 characters was answered with the alert after
\* a paste of 100 characters was not.
C16_Witness ==
    \E ch \in Chans :
       /\ pc[ch] = "handled"
       /\ msg[ch].type = "paste_event"
       /\ msg[ch].content = 101
       /\ Len(sent[ch]) = 1
       /\ Registered(ch)
       /\ Len(active_connections[args[ch].session_id].paste_events) = 2
       /\ active_connections[args[ch].session_id].paste_events[1].length = 100

\* C17: a handled paste_event has appended one record to the end of the
\* session's paste list: its length field is the length of the pasted text
\* and its content the first 200 characters (all of a shorter text).
C17_PasteRecorded ==
    \A ch \in Chans :
       (/\ msg[ch].type = "paste_event"
        /\ pc[ch] \in {"send", "handled"}
        /\ Registered(ch))
       => LET n == msg[ch].content
              found == loc[ch].before.record[1].paste_events
              paste_events == active_connections[args[ch].session_id].paste_events
              record == paste_events[Len(paste_events)]
          IN  /\ Len(paste_events) = Len(found) + 1
              /\ SubSeq(paste_events, 1, Len(found)) = found
              /\ record.length = n
              /\ record.content = IF n <= 200 THEN n ELSE 200
              /\ record.timestamp = now

\* C17 witness: a paste of 201 characters that alerts was recorded after a
\* paste of 100 characters that did not.
C17_Witness ==
    \E ch \in Chans :
       /\ pc[ch] = "send"
       /\ msg[ch].type = "paste_event"
       /\ Registered(ch)
       /\ LET paste_events == active_connections[args[ch].session_id].paste_events
          IN  /\ Len(paste_events) = 2
              /\ paste_events[1].length = 100
              /\ paste_events[2] = [content |-> 200, timestamp |-> now, length |-> 201]

\* C18: a run_code frame in a language outside the realtime language map
\* ("cobol", "go") makes no executor call and is answered with one
\* run_result of success = false and the unsupported-language error.
C18_UnsupportedLanguage ==
    \A ch \in Chans :
       (/\ msg[ch].type = "run_code"
        /\ msg[ch].language \in {"cobol", "go"}
        /\ Registered(ch))
       => LET reply == Event("run_result", FALSE, "Unsupported language", << >>)
          IN  /\ calls[ch] = NoCalls
              /\ pc[ch] \in {"dispatch", "send", "handled"}
              /\ pc[ch] = "send" => out[ch] = reply
              /\ pc[ch] = "handled" => SentIs(ch, reply)

\* C18 witness: the run_code frame in "cobol" was answered.
C18_Witness ==
    /\ pc["w1"] = "handled"
    /\ msg["w1"].type = "run_code"
    /\ msg["w1"].language = "cobol"
    /\ Len(sent["w1"]) = 1
    /\ ~sent["w1"][1].success

\* the frame the task of ch is servicing is no JSON, or an object whose
\* type is none of the five known ones
Unserviceable(ch) ==
    \/ msg[ch].kind = "badjson"
    \/ /\ msg[ch].kind = "object"
       /\ msg[ch].type \notin {"code_edit", "run_code", "submit_code",
                               "paste_event", "tab_switch"}

\* the error event an unserviceable frame calls for
ErrorFor(frame) ==
    IF frame.kind = "badjson"
    THEN Event("error", FALSE, "Invalid JSON message", << >>)
    ELSE Event("error", FALSE, "Unknown message type", <<frame.type>>)

\* C19: an unserviceable frame of a registered session is answered with one
\* error event (naming the type when the type is unknown), leaves the
\* session's connection record and snapshot list as it found them, and ends
\* the loop only if sending the answer fails.
C19_ErrorEventOnly ==
    \A ch \in Chans :
       Unserviceable(ch)
       => /\ pc[ch] \in {"send", "handled"}
             => Before(active_connections, code_snapshots, args[ch].session_id)
                   = loc[ch].before
          /\ (pc[ch] = "send" /\ Registered(ch)) => out[ch] = ErrorFor(msg[ch])
          /\ (pc[ch] = "handled" /\ Registered(ch)) => SentIs(ch, ErrorFor(msg[ch]))
          /\ pc[ch] = "done" => exit[ch] = "send failed"

\* C19 witness: a frame of unknown type was answered on a session that has
\* a snapshot and a non-empty record.
C19_Witness ==
    \E ch \in Chans :
       /\ pc[ch] = "handled"
       /\ msg[ch].type = "ping"
       /\ Len(sent[ch]) = 1
       /\ sent[ch][1].payload = <<"ping">>
       /\ Registered(ch)
       /\ active_connections[args[ch].session_id].last_code = 51
       /\ Len(code_snapshots[args[ch].session_id]) = 1

\* C20: a registered session id's entry is the one made by the channel
\* most recently connected for it: that channel and that channel's task id.
C20_EntryOfLatestChannel ==
    \A s \in DOMAIN active_connections :
       /\ Latest(s) # None
       /\ active_connections[s].websocket = Latest(s)
       /\ active_connections[s].task_id = args[Latest(s)].task_id

\* C20 witness: the second channel connected for the id the first one
\* holds, with another task, while the first is still open and looping.
C20_Witness ==
    /\ conn_order = <<"w1", "w2">>
    /\ args["w1"].session_id = args["w2"].session_id
    /\ args["w1"].task_id # args["w2"].task_id
    /\ chan["w1"] = "open"
    /\ pc["w1"] = "receive"
    /\ "s1" \in DOMAIN active_connections
    /\ active_connections["s1"].websocket = "w2"

\* the step is a connect
Connected == conn_order' # conn_order

\* the channel that connects in a connect step
Connecting == conn_order'[Len(conn_order')]

\* C21: a step that removes a session from the registry leaves every
\* snapshot list as it is, and a connect leaves the lists it finds as they
\* are, adding an empty one only for an id that has none.
C21_SnapshotsSurvive ==
    [][/\ DOMAIN active_connections' # DOMAIN active_connections
          => \A s \in DOMAIN code_snapshots :
                s \in DOMAIN code_snapshots' /\ code_snapshots'[s] = code_snapshots[s]
       /\ Connected
          => /\ args'[Connecting].session_id \in DOMAIN code_snapshots'
             /\ \A s \in DOMAIN code_snapshots' :
                   code_snapshots'[s] =
                      IF s \in DOMAIN code_snapshots THEN code_snapshots[s] ELSE << >>]_vars

\* C21 witness: the first channel captured a snapshot and ended; the second
\* channel connected for the same id later and finds that snapshot.
C21_Witness ==
    /\ conn_order = <<"w1", "w2">>
    /\ pc["w1"] = "done"
    /\ pc["w2"] = "receive"
    /\ "s1" \in DOMAIN active_connections
    /\ active_connections["s1"].websocket = "w2"
    /\ Len(code_snapshots["s1"]) = 1
    /\ code_snapshots["s1"][1].code = 51
    /\ code_snapshots["s1"][1].timestamp < active_connections["s1"].last_activity

\* C22: right after a connect the session's registry entry holds the
\* connecting channel and its task id, empty last code, an empty paste
\* list and tab-switch counter 0.
C22_ConnectStartsAfresh ==
    [][Connected
       => LET s == args'[Connecting].session_id
          IN  /\ s \in DOMAIN active_connections'
              /\ active_connections'[s] =
                    [websocket |-> Connecting,
                     task_id |-> args'[Connecting].task_id,
                     last_code |-> 0,
                     last_activity |-> now,
                     paste_events |-> << >>,
                     tab_switches |-> 0]]_vars

\* C22 witness: the second channel has connected for an id whose entry had
\* seen two code_edit messages, and the entry is a fresh one.
C22_Witness ==
    /\ conn_order = <<"w1", "w2">>
    /\ args["w1"].session_id = "s1"
    /\ args["w2"].session_id = "s1"
    /\ nrecv = 2
    /\ pc["w1"] = "receive"
    /\ pc["w2"] = "receive"
    /\ Len(edits["s1"]) = 2
    /\ active_connections["s1"] = NewConnection("w2", args["w2"].task_id, now)

\* C23: a submit_code for a task id without a Coding Task, or in a language
\* outside the supported map, is answered with submit_result success =
\* false and the failure text, makes no executor call and stores no record
\* (fewer records are stored than frames were received); a run that gets
\* through its last test case is answered with success = true and score,
\* passed_tests, total_tests, test_results.
C23_SubmitFailures ==
    \A ch \in Chans :
       (msg[ch].type = "submit_code" /\ Registered(ch))
       => LET task_id == active_connections[args[ch].session_id].task_id
              failure == IF task_id = "tX" THEN "Coding task not found"
                         ELSE "Unsupported language"
              reply == Event("submit_result", FALSE, failure, << >>)
          IN  /\ (task_id = "tX" \/ msg[ch].language = "cobol")
                 => /\ calls[ch] = NoCalls
                    /\ submissions < nrecv
                    /\ pc[ch] \in {"dispatch", "send", "handled"}
                    /\ pc[ch] = "send" => out[ch] = reply
                    /\ pc[ch] = "handled" => SentIs(ch, reply)
              /\ (/\ pc[ch] = "send"
                  /\ RunnerStarted(ch)
                  /\ loc[ch].i > Len(TestCases(task_id)))
                 => /\ out[ch].type = "submit_result"
                    /\ out[ch].success
                    /\ DOMAIN Summary(ch) =
                          {"score", "passed_tests", "total_tests", "test_results"}
                    /\ Len(Summary(ch).test_results) = Len(TestCases(task_id))

\* C23 witness: a submit_code in "cobol" was answered after a submit_code on
\* the same task had completed and stored its record.
C23_Witness ==
    /\ pc["w1"] = "handled"
    /\ msg["w1"].type = "submit_code"
    /\ msg["w1"].language = "cobol"
    /\ Len(sent["w1"]) = 1
    /\ sent["w1"][1].error = "Unsupported language"
    /\ submissions = 1
    /\ nrecv = 2

\* C24: a code_edit that finds the session's snapshot list empty leaves it
\* with exactly one entry, the code and time of that edit.
C24_FirstEditCaptured ==
    \A ch \in Chans :
       (/\ msg[ch].type = "code_edit"
        /\ pc[ch] = "send"
        /\ loc[ch].pre = << >>)
       => code_snapshots[args[ch].session_id] =
             << [code |-> msg[ch].code, timestamp |-> now] >>

\* C24 witness: the first edit of a session carries empty code and comes
\* more than a minute after the connect.
C24_Witness ==
    \E ch \in Chans :
       /\ msg[ch].type = "code_edit"
       /\ msg[ch].code = 0
       /\ pc[ch] = "send"
       /\ loc[ch].pre = << >>
       /\ now = 61
       /\ Len(code_snapshots[args[ch].session_id]) = 1

\* the task of ch has serviced a code_edit of a registered session
Edited(ch) ==
    /\ msg[ch].type = "code_edit"
    /\ pc[ch] \in {"send", "handled"}
    /\ Registered(ch)

\* the code_edit ch has serviced repeats the code of the code_edit that
\* reached the session before it, less than 30 seconds earlier
SameCodeAgain(ch) ==
    LET e == edits[args[ch].session_id]
    IN  /\ Len(e) = 2
        /\ e[1].code = e[2].code
        /\ e[2].timestamp - e[1].timestamp < 30

\* every serviced code_edit sets last-code and last-activity and is
\* answered with one edit_ack carrying its timestamp
Acknowledged(ch) ==
    LET ack == Event("edit_ack", TRUE, "", <<now>>)
    IN  /\ active_connections[args[ch].session_id].last_code = msg[ch].code
        /\ active_connections[args[ch].session_id].last_activity = now
        /\ pc[ch] = "send" => out[ch] = ack
        /\ pc[ch] = "handled" => SentIs(ch, ack)

\* C25 as stated: a code_edit that repeats the code of the previous one
\* less than 30 seconds later appends no snapshot, and every code_edit is
\* acknowledged.
C25_NoSnapshotWithin30 ==
    \A ch \in Chans :
       Edited(ch)
       => /\ Acknowledged(ch)
          /\ SameCodeAgain(ch)
             => code_snapshots[args[ch].session_id] = loc[ch].pre

\* C25: a code_edit that repeats the code of the previous one less than 30
\* seconds later appends no snapshot when it comes less than 30 seconds
\* after the session's last snapshot and appends one when it comes more than
\* 30 seconds after it, and every code_edit is acknowledged.
C25_NoSnapshotWithin30OfLast ==
    \A ch \in Chans :
       Edited(ch)
       => /\ Acknowledged(ch)
          /\ SameCodeAgain(ch)
             => LET pre == loc[ch].pre
                    snapshots == code_snapshots[args[ch].session_id]
                    elapsed == now - pre[Len(pre)].timestamp
                IN  /\ pre # << >>
                    /\ elapsed < 30 => snapshots = pre
                    /\ elapsed > 30
                       => snapshots = append_snapshot(pre,
                              [code |-> msg[ch].code, timestamp |-> now])

\* C25 witness: the same code was sent twice 20 seconds apart, the first
\* time captured, the second time not, and the second edit is acknowledged.
C25_Witness ==
    \E ch \in Chans :
       /\ Edited(ch)
       /\ pc[ch] = "handled"
       /\ SameCodeAgain(ch)
       /\ edits["s1"][2].timestamp - edits["s1"][1].timestamp = 20
       /\ loc[ch].pre[Len(loc[ch].pre)] = edits["s1"][1]
       /\ code_snapshots["s1"] = loc[ch].pre
       /\ Len(sent[ch]) = 1

\* the polling of ch holds a fetched result whose status id is neither 1
\* nor 2
HoldsTerminal(ch) ==
    /\ loc[ch].result # << >>
    /\ loc[ch].result[1].status \notin {1, 2}

\* C26: a polling loop goes on only while the status id of what it fetched
\* is 1 or 2; the fetch that returned any other status is the last one for
\* its token, run_code reports that result with success=true, and the Test
\* Runner makes the test case's record from it.
C26_FirstTerminalReported ==
    \A ch \in Chans :
       /\ InPollingLoop(ch) => ~HoldsTerminal(ch)
       /\ (pc[ch] \in {"run_done", "test_record"} /\ HoldsTerminal(ch))
          => calls[ch].fetches = loc[ch].attempt + 1
       /\ (msg[ch].type = "run_code" /\ HoldsTerminal(ch))
          => LET reported == Event("run_result", TRUE, "", loc[ch].result)
             IN  /\ pc[ch] \in {"run_done", "send", "handled", "done"}
                 /\ pc[ch] = "send" => out[ch] = reported
                 /\ pc[ch] = "handled" => SentIs(ch, reported)
       /\ (msg[ch].type = "submit_code" /\ Recorded(ch) /\ HoldsTerminal(ch))
          => LET n == Len(loc[ch].test_results)
             IN  LastRecorded(ch) =
                    TestRecordOf(n, TestCases(loc[ch].task_id)[n], loc[ch].result)

\* C26 witness: a run_code frame whose third poll returned a status that is
\* neither in progress nor accepted has been answered with that result.
C26_Witness ==
    /\ msg["w1"].type = "run_code"
    /\ pc["w1"] = "handled"
    /\ HoldsTerminal("w1")
    /\ loc["w1"].result[1].status = 6
    /\ calls["w1"].fetches = 3
    /\ Len(sent["w1"]) = 1
    /\ sent["w1"][1].success

\* a submit or a fetch of the run_code frame ch is servicing has failed
RunFailed(ch) == msg[ch].type = "run_code" /\ calls[ch].failed

\* C27: once a submit or a fetch of a run_code frame has failed, the task
\* is out of the polling loop, the failed call is the frame's last executor
\* call, and the frame's one reply is a run_result with success=false
\* carrying the failure text.
C27_RunFailureEndsPolling ==
    \A ch \in Chans :
       RunFailed(ch)
       => LET failure == Event("run_result", FALSE, "Judge0 error", << >>)
          IN  /\ pc[ch] \in {"send", "handled", "done"}
              /\ Len(calls[ch].submits) = 1
              /\ calls[ch].fetches <= loc[ch].attempt + 1
              /\ pc[ch] = "send" => out[ch] = failure
              /\ pc[ch] = "handled" => SentIs(ch, failure)

\* C27 witness: the second poll of a run_code frame failed after the first
\* returned an in-progress status, and the frame was answered with one
\* run_result with success=false.
C27_Witness ==
    /\ RunFailed("w1")
    /\ pc["w1"] = "handled"
    /\ loc["w1"].result # << >>
    /\ calls["w1"].fetches = 2
    /\ Len(sent["w1"]) = 1
    /\ sent["w1"][1].type = "run_result"
    /\ ~sent["w1"][1].success

\* a fetch of the test case the Test Runner of ch is polling for, or has
\* just recorded, has failed
FetchFailed(ch) ==
    /\ msg[ch].type = "submit_code"
    /\ calls[ch].failed
    /\ pc[ch] \in {"test_poll", "test_record", "test_next"}

\* C28: after a fetch of a test case has failed the Test Runner is still on
\* that test case; every fetch, failed or not, has used one of the 30
\* attempts; polling goes on while attempts are left and no terminal result
\* was fetched; and a terminal result fetched after the failure makes the
\* test case's record.
C28_TestFetchFailureTolerated ==
    \A ch \in Chans :
       /\ (msg[ch].type = "submit_code" /\ calls[ch].failed /\ calls[ch].fetches >= 1)
          => /\ pc[ch] \in {"test_poll", "test_record"}
             /\ calls[ch].fetches = loc[ch].attempt + (IF HoldsTerminal(ch) THEN 1 ELSE 0)
             /\ calls[ch].fetches <= 30
             /\ pc[ch] = "test_poll" <=> (~HoldsTerminal(ch) /\ loc[ch].attempt < 30)
       /\ (FetchFailed(ch) /\ pc[ch] = "test_next" /\ HoldsTerminal(ch))
          => LET n == Len(loc[ch].test_results)
             IN  /\ n >= 1
                 /\ LastRecorded(ch).error # "Execution timeout"
                 /\ LastRecorded(ch) =
                       TestRecordOf(n, TestCases(loc[ch].task_id)[n], loc[ch].result)

\* C28 witness: the second test case was recorded as passed from a result
\* fetched after one of its fetches had failed.
C28_Witness ==
    /\ FetchFailed("w1")
    /\ pc["w1"] = "test_next"
    /\ HoldsTerminal("w1")
    /\ Len(loc["w1"].test_results) = 2
    /\ LastRecorded("w1").passed

\* the task of ch is about to dispatch a parsed frame whose session id has
\* no entry in the registry
Unregistered(ch) ==
    /\ running = ch
    /\ pc[ch] = "dispatch"
    /\ msg[ch].kind # "badjson"
    /\ args[ch].session_id \notin DOMAIN active_connections

\* C29: the step that dispatches a message for a session id with no entry
\* in the registry ends the message's handling with no event sent or
\* prepared, no executor call made, and the registry, the snapshot store
\* and the stored submissions as they were.
C29_UnregisteredDropped ==
    [][\A ch \in Chans :
          Unregistered(ch)
          => /\ pc'[ch] = "handled"
             /\ sent'[ch] = << >>
             /\ out'[ch] = NoEvent
             /\ calls'[ch] = NoCalls
             /\ active_connections' = active_connections
             /\ code_snapshots' = code_snapshots
             /\ submissions' = submissions]_vars

\* C29 witness: a run_code frame read from an open channel after the other
\* channel's close had removed the session's entry was handled with nothing
\* sent and no executor call.
C29_Witness ==
    \E ch \in Chans :
       /\ chan[ch] = "open"
       /\ pc[ch] = "handled"
       /\ msg[ch].type = "run_code"
       /\ args[ch].session_id \notin DOMAIN active_connections
       /\ code_snapshots[args[ch].session_id] # << >>
       /\ sent[ch] = << >>
       /\ calls[ch] = NoCalls

\* the step is one the task of ch takes while it services a frame of one of
\* the types
Servicing(ch, types) ==
    /\ running = ch
    /\ pc[ch] \notin {"start", "receive", "done"}
    /\ msg[ch].type \in types

\* the step leaves last_code of session s's record as it was
KeepsLastCode(s) ==
    (s \in DOMAIN active_connections /\ s \in DOMAIN active_connections')
    => active_connections'[s].last_code = active_connections[s].last_code

\* the step leaves paste_events of session s's record as it was
KeepsPasteEvents(s) ==
    (s \in DOMAIN active_connections /\ s \in DOMAIN active_connections')
    => active_connections'[s].paste_events = active_connections[s].paste_events

\* the step leaves tab_switches of session s's record as it was
KeepsTabSwitches(s) ==
    (s \in DOMAIN active_connections /\ s \in DOMAIN active_connections')
    => active_connections'[s].tab_switches = active_connections[s].tab_switches

\* the step leaves the record and the snapshot list of every session other
\* than s as they were
KeepsOthers(s) ==
    /\ DOMAIN active_connections' \ {s} = DOMAIN active_connections \ {s}
    /\ DOMAIN code_snapshots' \ {s} = DOMAIN code_snapshots \ {s}
    /\ \A o \in DOMAIN active_connections \ {s} :
          active_connections'[o] = active_connections[o]
    /\ \A o \in DOMAIN code_snapshots \ {s} :
          code_snapshots'[o] = code_snapshots[o]

\* C30: while a task services a message, paste_event, tab_switch, run_code
\* and submit_code leave the snapshot lists and last_code unchanged,
\* code_edit leaves paste_events and tab_switches unchanged, paste_event
\* leaves tab_switches and tab_switch leaves paste_events unchanged, and no
\* message changes the record or the snapshots of another session.
C30_OwnPartOnly ==
    [][\A ch \in Chans :
          LET own == args[ch].session_id
          IN  /\ Servicing(ch, {"paste_event", "tab_switch", "run_code", "submit_code"})
                 => /\ code_snapshots' = code_snapshots
                    /\ KeepsLastCode(own)
              /\ Servicing(ch, {"code_edit"})
                 => /\ KeepsPasteEvents(own)
                    /\ KeepsTabSwitches(own)
              /\ Servicing(ch, {"paste_event"}) => KeepsTabSwitches(own)
              /\ Servicing(ch, {"tab_switch"}) => KeepsPasteEvents(own)
              /\ Servicing(ch, KnownTypes) => KeepsOthers(own)]_vars

\* C30 witness: a paste_event of session s2 has been recorded while session
\* s1 holds a snapshot and a last code; s2 has no snapshot, no last code and
\* no tab switch, and s1 no paste event.
C30_Witness ==
    /\ args["w2"].session_id = "s2"
    /\ msg["w2"].type = "paste_event"
    /\ pc["w2"] = "handled"
    /\ {"s1", "s2"} \subseteq DOMAIN active_connections
    /\ Len(active_connections["s2"].paste_events) = 1
    /\ active_connections["s2"].tab_switches = 0
    /\ active_connections["s2"].last_code = 0
    /\ code_snapshots["s2"] = << >>
    /\ active_connections["s1"].last_code = 51
    /\ active_connections["s1"].paste_events = << >>
    /\ code_snapshots["s1"] # << >>

====
